---------------------------- MODULE Spec2Model ----------------------------
(***************************************************************************)
(* The goal-driven plan / execute / verify loop of the desktop agent:      *)
(*   GoalPlanner   (goal_planner.py)  break_down_goal, create_fallback_steps*)
(*   GoalVerifier  (goal_verifier.py) verify_goal_completion and its checks *)
(*   Agent         (main.py)          set_goal, run, stop and their helpers *)
(* The Input Backend, the Planning Service, the screen and the Knowledge    *)
(* Store files are the environment: their answers are drawn with \E.        *)
(***************************************************************************)
EXTENDS Integers, Sequences, FiniteSets, TLC

(***************************************************************************)
(* Python values are tagged records; a str is a sequence of one-character  *)
(* strings, so that lower() and `in` are computed.                         *)
(***************************************************************************)
PyNone == [t |-> "none"]
None == 0 - 1       \* "not assigned" for a number the code did not get to set
PyBool(b) == [t |-> "bool", v |-> b]
PyStr(s) == [t |-> "str", v |-> s]
PyList(l) == [t |-> "list", v |-> l]
PyDict(d) == [t |-> "dict", v |-> d]

\* bool(v)
Truthy(x) ==
    CASE x.t = "none" -> FALSE
      [] x.t = "bool" -> x.v
      [] x.t = "str" -> x.v # <<>>
      [] x.t = "list" -> x.v # <<>>
      [] x.t = "dict" -> DOMAIN x.v # {}

\* {} , d.get(k) and d.update(e) on dicts, which are functions on their keys
EmptyDict == <<>>
Get(d, k) == IF k \in DOMAIN d THEN d[k] ELSE PyNone
Update(d, e) == [k \in DOMAIN d \cup DOMAIN e |-> IF k \in DOMAIN e THEN e[k] ELSE d[k]]

UpperOf == [c \in {"A", "D", "E", "I", "N", "O", "P", "R", "T", "W"} |->
              CASE c = "A" -> "a" [] c = "D" -> "d" [] c = "E" -> "e"
                [] c = "I" -> "i" [] c = "N" -> "n" [] c = "O" -> "o"
                [] c = "P" -> "p" [] c = "R" -> "r" [] c = "T" -> "t"
                [] c = "W" -> "w"]

\* str.lower()
Lower(s) == [i \in 1..Len(s) |-> IF s[i] \in DOMAIN UpperOf THEN UpperOf[s[i]] ELSE s[i]]

\* `sub in s` for two str
Contains(sub, s) ==
    \E i \in 0..(Len(s) - Len(sub)) : \A j \in 1..Len(sub) : s[i + j] = sub[j]

kw_paint == <<"p", "a", "i", "n", "t">>
kw_draw == <<"d", "r", "a", "w">>
kw_notepad == <<"n", "o", "t", "e", "p", "a", "d">>
kw_open == <<"o", "p", "e", "n">>

\* "draw a house in paint"
GoalHouse == <<"d", "r", "a", "w", " ", "a", " ", "h", "o", "u", "s", "e", " ",
               "i", "n", " ", "p", "a", "i", "n", "t">>
\* "Open PAINT"
GoalOpenPaint == <<"O", "p", "e", "n", " ", "P", "A", "I", "N", "T">>
\* "open notepad"
GoalNotepad == <<"o", "p", "e", "n", " ", "n", "o", "t", "e", "p", "a", "d">>
\* "Draw"
GoalDraw == <<"D", "r", "a", "w">>
\* ""
GoalEmpty == <<>>

Goals == {GoalHouse, GoalOpenPaint, GoalNotepad, GoalDraw, GoalEmpty}

(***************************************************************************)
(* GoalPlanner                                                              *)
(***************************************************************************)
\* The methods class GoalPlanner defines.  break_down_goal also calls
\* self.reset_plan, self._create_planning_prompt and self._validate_steps,
\* which the class does not define: each such call raises AttributeError.
GoalPlannerMethods ==
    {"__init__", "ensure_knowledge_structure", "break_down_goal",
     "create_fallback_steps", "store_goal_breakdown", "log_error", "log_success",
     "extract_keywords", "adapt_pattern_to_goal", "log_message", "load_goal_context"}

max_retries == 3

PressWinR == [type |-> "PRESS", params |-> [keys |-> "win+r"]]
TypeText(t) == [type |-> "TYPE", params |-> [text |-> t, enter |-> TRUE]]

\* GoalPlanner.create_fallback_steps: the list of step dicts.
create_fallback_steps(goal) ==
    IF Contains(kw_paint, Lower(goal)) THEN
        <<[description |-> "Open the Run dialog",
           action |-> PressWinR,
           verification |-> [type |-> "check_window", params |-> [title |-> "Run"]]],
          [description |-> "Type 'mspaint' and press Enter",
           action |-> TypeText("mspaint"),
           verification |-> [type |-> "check_window", params |-> [title |-> "Paint"]]]>>
        \o (IF Contains(kw_draw, Lower(goal))
            THEN <<[description |-> "Draw on the canvas",
                    action |-> [type |-> "DRAW", params |-> <<>>],
                    verification |-> [type |-> "check_drawing", params |-> <<>>]]>>
            ELSE <<>>)
    ELSE IF Contains(kw_notepad, Lower(goal)) THEN
        <<[description |-> "Open the Run dialog",
           action |-> PressWinR,
           verification |-> [type |-> "check_window", params |-> [title |-> "Run"]]],
          [description |-> "Type 'notepad' and press Enter",
           action |-> TypeText("notepad"),
           verification |-> [type |-> "check_window", params |-> [title |-> "Notepad"]]]>>
    ELSE
        <<[description |-> "Generic action",
           action |-> [type |-> "WAIT", params |-> [duration |-> 1]],
           verification |-> <<>>]>>

\* What the Planning Service (self.llm.generate) does on one attempt, and the
\* steps of a response {"steps": [...]} in the Plan JSON schema.
ServiceAnswers == {"raises", "none", "no_steps", "steps"}
ServiceSteps ==
    <<[name |-> "open_run", description |-> "Open the Run dialog",
       actions |-> <<PressWinR>>]>>

\* The retry loop of break_down_goal from `retries` on: the number of
\* Planning Service calls made and whether a response was accepted.  The
\* prompt is built by self._create_planning_prompt(goal) before the service is
\* called and an accepted response goes through self._validate_steps; a call
\* of a method the class lacks raises inside the inner try, which counts the
\* attempt as failed.
RECURSIVE RetryLoop(_, _, _)
RetryLoop(svc, retries, calls) ==
    IF retries >= max_retries THEN [accepted |-> FALSE, retries |-> retries, calls |-> calls]
    ELSE IF "_create_planning_prompt" \notin GoalPlannerMethods
         THEN RetryLoop(svc, retries + 1, calls)
    ELSE IF svc[retries + 1] = "steps" /\ "_validate_steps" \in GoalPlannerMethods
         THEN [accepted |-> TRUE, retries |-> retries, calls |-> calls + 1]
    ELSE RetryLoop(svc, retries + 1, calls + 1)

\* GoalPlanner.break_down_goal(goal) against a Planning Service that answers
\* svc[i] on attempt i: [ret, retries, calls].  ret is None or the list of
\* steps; goal is a PyStr or PyNone (None.lower() raises in
\* create_fallback_steps, which the outer except turns into None).
break_down_goal(goal, svc) ==
    IF "reset_plan" \notin GoalPlannerMethods
    THEN [ret |-> PyNone, retries |-> None, calls |-> 0]
    ELSE LET loop == RetryLoop(svc, 0, 0) IN
         IF loop.accepted
         THEN [ret |-> PyList(ServiceSteps), retries |-> loop.retries, calls |-> loop.calls]
         ELSE IF goal.t # "str"
         THEN [ret |-> PyNone, retries |-> loop.retries, calls |-> loop.calls]
         ELSE LET fallback_plan == create_fallback_steps(goal.v) IN
              [ret |-> IF fallback_plan # <<>> THEN PyList(fallback_plan) ELSE PyNone,
               retries |-> loop.retries, calls |-> loop.calls]

(***************************************************************************)
(* The GoalPlanner on its own: any caller, any goal, any Planning Service. *)
(***************************************************************************)
VARIABLES
    planner,        \* the GoalPlanner's fields current_plan, current_step, retries
    planner_call    \* the last call made on it: op, goal, svc and what it returned

VARIABLES
    v_goal,         \* the goal, or the expected_result of the action (a str)
    v_expected,     \* expected_state: None or a dict
    v_patterns,     \* the visual patterns file
    v_state,        \* the caller's state dict, passed as current_state
    v_call,         \* the last call of the verifier and what it returned
    v_prev          \* the call before it

VARIABLES
    goal_planner,   \* which planner self.goal_planner is
    self_goal,      \* Agent.goal
    current_plan,   \* Agent.current_plan
    running,        \* Agent.running
    error_count,    \* Agent.error_count
    window,         \* the title of the foreground window
    successes,      \* the entries of knowledge/actions/successful_actions.json
    set_goal_ret,   \* what the last set_goal returned
    run_pc,         \* where the worker that calls run() is
    run_ret,        \* what run() returned
    loc,            \* the locals of run(): step, action index, prereq_attempts, ...
    plan_thread,    \* the create_plan_thread that run() starts
    hist            \* what happened during the run (history)

planner_vars == <<planner, planner_call>>
verifier_vars == <<v_goal, v_expected, v_patterns, v_state, v_call, v_prev>>
agent_vars == <<goal_planner, self_goal, current_plan, running, error_count, window, successes,
                set_goal_ret, run_pc, run_ret, loc, plan_thread, hist>>

VARIABLE
    workers         \* the threads AgentGUI.start_agent has started on agent.run()
gui_vars == <<workers>>

PlannerInit ==
    /\ planner = [current_plan |-> PyNone, current_step |-> 0, retries |-> 0]
    /\ planner_call = [op |-> "none"]

GoalArgs == {PyStr(g) : g \in Goals} \cup {PyNone}
ServiceBehaviours == [1..max_retries -> ServiceAnswers]

\* planner.break_down_goal(goal)
CallBreakDownGoal ==
    \E goal \in GoalArgs, svc \in ServiceBehaviours :
        LET r == break_down_goal(goal, svc) IN
        /\ planner' = [current_plan |-> IF r.ret = PyNone THEN planner.current_plan ELSE r.ret,
                       current_step |-> IF r.ret = PyNone THEN planner.current_step ELSE 0,
                       retries |-> IF r.retries = None THEN planner.retries ELSE r.retries]
        /\ planner_call' = [op |-> "break_down_goal", goal |-> goal, svc |-> svc,
                            ret |-> r.ret, calls |-> r.calls]
        /\ UNCHANGED <<verifier_vars, agent_vars, gui_vars>>

\* planner.create_fallback_steps(goal), for a str goal
CallCreateFallbackSteps ==
    \E g \in Goals :
        /\ planner_call' = [op |-> "create_fallback_steps", goal |-> PyStr(g),
                            ret |-> PyList(create_fallback_steps(g))]
        /\ UNCHANGED <<planner, verifier_vars, agent_vars, gui_vars>>

(***************************************************************************)
(* GoalVerifier                                                             *)
(***************************************************************************)
\* Window titles and process names the desktop may show.
TitleRun == <<"R", "u", "n">>
TitlePaint == <<"U", "n", "t", "i", "t", "l", "e", "d", " ", "-", " ", "P", "a", "i", "n", "t">>
TitleNotes == <<"N", "o", "t", "e", "s">>
ProcPaint == <<"m", "s", "p", "a", "i", "n", "t", ".", "e", "x", "e">>
ProcShell == <<"c", "m", "d", ".", "e", "x", "e">>
ExeSuffix == <<".", "e", "x", "e">>

\* GoalVerifier._load_program_cache: the default entry 'paint'.
program_info_cache ==
    [paint |-> [window_patterns |-> <<kw_paint,
                                      <<"u", "n", "t", "i", "t", "l", "e", "d", " ", "-", " ",
                                        "p", "a", "i", "n", "t">>,
                                      <<"m", "i", "c", "r", "o", "s", "o", "f", "t", " ",
                                        "p", "a", "i", "n", "t">>>>,
                process_names |-> <<ProcPaint>>]]

\* GoalVerifier._get_program_info(program_name) of a verifier built without an
\* llm: the cache entry, else the defaults; {} when program_name is no str
\* (program_name.lower() raises).  The cache is keyed by 'paint' alone.
get_program_info(program_name) ==
    IF program_name.t # "str" THEN EmptyDict
    ELSE IF Lower(program_name.v) = kw_paint THEN program_info_cache.paint
    ELSE [window_patterns |-> <<Lower(program_name.v)>>,
          process_names |-> <<Lower(program_name.v) \o ExeSuffix>>]

\* any(any(p.lower() in x.lower() for p in patterns) for x in names)
AnyMatch(patterns, names) ==
    \E i \in 1..Len(names) : \E j \in 1..Len(patterns) :
        Contains(Lower(patterns[j]), Lower(names[i]))

\* current_state.get(key, []) for a key that holds a list of str
ListOf(current_state, key) ==
    IF key \in DOMAIN current_state /\ current_state[key].t = "list"
    THEN current_state[key].v ELSE <<>>

\* requirement without the rule that skips program_open = False.
requirement_no_skip(current_state, key, expected_value) ==
    LET current_value == Get(current_state, key) IN
    IF expected_value = PyNone THEN "skip"
    ELSE IF key = "program_open" THEN
        LET program_info == get_program_info(expected_value) IN
        IF program_info = EmptyDict THEN "fail"
        ELSE IF \/ AnyMatch(program_info.window_patterns,
                             ListOf(current_state, "window_titles"))
                \/ AnyMatch(program_info.process_names,
                             ListOf(current_state, "processes"))
             THEN "met" ELSE "unmet"
    ELSE IF key = "window_title" /\ ~Truthy(expected_value) THEN "skip"
    ELSE IF current_value = expected_value THEN "met" ELSE "unmet"

\* One pass of the loop body of _verify_state_requirements for (key,
\* expected_value): "skip" (continue), "met", "unmet", or "fail" (return False,
\* also when the body raises and the except returns False).
requirement(current_state, key, expected_value) ==
    LET current_value == Get(current_state, key) IN
    IF expected_value = PyNone THEN "skip"
    ELSE IF key = "program_open" THEN
        IF expected_value = PyBool(FALSE) THEN "skip"
        ELSE LET program_info == get_program_info(expected_value) IN
             IF program_info = EmptyDict THEN "fail"
             ELSE IF \/ AnyMatch(program_info.window_patterns,
                                  ListOf(current_state, "window_titles"))
                     \/ AnyMatch(program_info.process_names,
                                  ListOf(current_state, "processes"))
                  THEN "met" ELSE "unmet"
    ELSE IF key = "window_title" THEN
        IF ~Truthy(expected_value) THEN "skip"
        ELSE IF ~Truthy(current_value) THEN "unmet"
        ELSE IF expected_value.t # "str" \/ current_value.t # "str" THEN "fail"
        ELSE IF Contains(Lower(expected_value.v), Lower(current_value.v))
             THEN "met" ELSE "unmet"
    ELSE IF current_value = expected_value THEN "met" ELSE "unmet"

\* GoalVerifier._verify_state_requirements(current_state, expected_state);
\* expected_state is PyNone or a PyDict.
verify_state_requirements(current_state, expected_state) ==
    IF ~Truthy(expected_state) THEN TRUE
    ELSE \A key \in DOMAIN expected_state.v :
            requirement(current_state, key, expected_state.v[key]) \in {"skip", "met"}

\* The desktop as win32gui/psutil show it.  api_ok = FALSE: the calls raise.
DeskDown == [api_ok |-> FALSE, active |-> <<>>, titles |-> <<>>, paint_proc |-> FALSE]
DeskRun == [api_ok |-> TRUE, active |-> TitleRun, titles |-> <<TitleRun>>, paint_proc |-> FALSE]
DeskPaint == [api_ok |-> TRUE, active |-> TitlePaint, titles |-> <<TitleNotes, TitlePaint>>,
              paint_proc |-> TRUE]
DeskNotes == [api_ok |-> TRUE, active |-> TitleNotes, titles |-> <<TitleNotes>>,
              paint_proc |-> TRUE]

\* GoalVerifier._get_current_state() on a desktop ({} when it raises).  The
\* keys timestamp and cursor_position, which no check reads, are left out.
get_current_state(desk) ==
    IF ~desk.api_ok THEN EmptyDict
    ELSE [active_window |-> PyStr(desk.active),
          window_titles |-> PyList(desk.titles),
          paint_open |-> PyBool(desk.paint_proc)]

\* The screen as ImageGrab/cv2 show it: grab_ok = FALSE makes ImageGrab.grab()
\* raise, cv_ok = FALSE makes the cv2 calls raise; max_val is the best template
\* match in tenths; drawing is what _verify_drawing_present finds on it.
ScreenDown == [grab_ok |-> FALSE, cv_ok |-> FALSE, max_val |-> 0, drawing |-> FALSE]
ScreenNoCv == [grab_ok |-> TRUE, cv_ok |-> FALSE, max_val |-> 0, drawing |-> FALSE]
ScreenDialog == [grab_ok |-> TRUE, cv_ok |-> TRUE, max_val |-> 7, drawing |-> FALSE]
ScreenBlank == [grab_ok |-> TRUE, cv_ok |-> TRUE, max_val |-> 8, drawing |-> FALSE]
ScreenDrawn == [grab_ok |-> TRUE, cv_ok |-> TRUE, max_val |-> 10, drawing |-> TRUE]

\* knowledge/patterns/visual_patterns.json: pattern name -> keywords, whether
\* its template file can be read, and its threshold in tenths (None: absent).
PatternFiles ==
    {EmptyDict,
     [house |-> [keywords |-> {kw_paint}, readable |-> TRUE, threshold |-> None]],
     [house |-> [keywords |-> {kw_paint, kw_open}, readable |-> TRUE, threshold |-> 9],
      logo |-> [keywords |-> {kw_draw}, readable |-> FALSE, threshold |-> None]]}

default_threshold == 8

\* GoalVerifier._load_expected_patterns(goal): the names of the patterns with
\* a keyword in goal.lower()
load_expected_patterns(patterns, goal) ==
    {n \in DOMAIN patterns : \E k \in patterns[n].keywords : Contains(k, Lower(goal))}

\* GoalVerifier._verify_visual_state(screen_state, goal): the dict of results,
\* one entry per goal pattern whose template could be read.
verify_visual_state(screen, patterns, goal) ==
    LET names == {n \in load_expected_patterns(patterns, goal) : patterns[n].readable} IN
    IF ~screen.cv_ok THEN PyNone ELSE
    PyDict([n \in names |->
              [matched |-> screen.max_val >=
                             (IF patterns[n].threshold = None THEN default_threshold
                              ELSE patterns[n].threshold)]])

\* GoalVerifier._verify_program_window(goal): a visible window whose title
\* holds one of the program's window patterns; False when win32gui raises.
verify_program_window(desk, goal) ==
    /\ desk.api_ok
    /\ \E i \in 1..Len(desk.titles) :
          \E j \in 1..Len(get_program_info(PyStr(goal)).window_patterns) :
             Contains(Lower(get_program_info(PyStr(goal)).window_patterns[j]),
                      Lower(desk.titles[i]))

\* GoalVerifier._verify_goal_specific(goal, screen_state)
verify_goal_specific(desk, screen, goal) ==
    IF Contains(kw_draw, Lower(goal)) THEN screen.cv_ok /\ screen.drawing
    ELSE IF Contains(kw_open, Lower(goal)) THEN verify_program_window(desk, goal)
    ELSE TRUE

\* The weights of _calculate_verification_confidence, in tenths.
weight_visual_check == 4
weight_state_check == 3
weight_goal_specific == 3

\* _calculate_verification_confidence with the visual weight at 0.5.
confidence_heavy_visual(results) ==
    (IF Truthy(results.visual_check) THEN weight_visual_check + 1 ELSE 0)
    + (IF results.state_check THEN weight_state_check ELSE 0)
    + (IF results.goal_specific THEN weight_goal_specific ELSE 0)

\* _calculate_verification_confidence that leaves the state check out.
confidence_no_state(results) ==
    (IF Truthy(results.visual_check) THEN weight_visual_check ELSE 0)
    + (IF results.goal_specific THEN weight_goal_specific ELSE 0)

\* GoalVerifier._calculate_verification_confidence(results), in tenths.  (The
\* float sums 0, 0.3, 0.4, 0.6, 0.7 and 1.0 compare with 0.5 and 0.8 as these
\* integers compare with 5 and 8.)
calculate_verification_confidence(results) ==
    (IF Truthy(results.visual_check) THEN weight_visual_check ELSE 0)
    + (IF results.state_check THEN weight_state_check ELSE 0)
    + (IF results.goal_specific THEN weight_goal_specific ELSE 0)

\* The three checks of verify_goal_completion on one observation.
checks(goal, current_state, expected_state, obs, patterns) ==
    [visual_check |-> verify_visual_state(obs.screen, patterns, goal),
     state_check |-> verify_state_requirements(current_state, expected_state),
     goal_specific |-> verify_goal_specific(obs.desk, obs.screen, goal)]

recheck_below == 5
pass_above == 8

\* verify_goal_completion, `if confidence < 0.5`: the one re-check
needs_recheck_never(confidence) == FALSE
needs_recheck(confidence) == confidence < recheck_below

\* GoalVerifier.verify_goal_completion(goal, current_state, expected_state)
\* when the desktop and screen are obs1 and, after the settle delay of the
\* re-check, obs2.  Returns passed and verification_data (data = FALSE: None,
\* the except path), the dict current_state as the call leaves it, and the
\* number of times the checks were evaluated.
verify_goal_completion(goal, current_state, expected_state, obs1, obs2, patterns) ==
    LET cs1 == Update(current_state, get_current_state(obs1.desk))
        r1 == checks(goal, cs1, expected_state, obs1, patterns)
        c1 == calculate_verification_confidence(r1)
        cs2 == Update(cs1, get_current_state(obs2.desk))
        r2 == checks(goal, cs2, expected_state, obs2, patterns)
        c2 == calculate_verification_confidence(r2)
    IN  IF ~obs1.screen.grab_ok
        THEN [passed |-> FALSE, data |-> FALSE, confidence |-> None, results |-> EmptyDict,
              current_state |-> cs1, evals |-> 0, evaluations |-> <<>>]
        ELSE IF ~needs_recheck(c1)
        THEN [passed |-> c1 > pass_above, data |-> TRUE, confidence |-> c1, results |-> r1,
              current_state |-> cs1, evals |-> 1, evaluations |-> <<r1>>]
        ELSE IF ~obs2.screen.grab_ok
        THEN [passed |-> FALSE, data |-> FALSE, confidence |-> None, results |-> EmptyDict,
              current_state |-> cs2, evals |-> 1, evaluations |-> <<r1>>]
        ELSE [passed |-> c2 > pass_above, data |-> TRUE, confidence |-> c2, results |-> r2,
              current_state |-> cs2, evals |-> 2, evaluations |-> <<r1, r2>>]

\* Agent.verify_action_result(action, pre_state, post_state): a fresh
\* GoalVerifier checks action['expected_result'] as the goal against post_state.
verify_action_result(action, pre_state, post_state, obs1, obs2, patterns) ==
    IF ~Truthy(action.expected_result)
    THEN [passed |-> TRUE, data |-> FALSE, confidence |-> None, results |-> EmptyDict,
          current_state |-> post_state, evals |-> 0, evaluations |-> <<>>]
    ELSE verify_goal_completion(action.expected_result.v, post_state,
                                action.expected_state, obs1, obs2, patterns)

(***************************************************************************)
(* The GoalVerifier on its own: one caller holding a goal, an expected     *)
(* state and a state dict, calling it against a changing desktop.          *)
(***************************************************************************)

\* What one look at the desktop and the screen can show.
Observations ==
    {[desk |-> DeskDown, screen |-> ScreenDown],
     [desk |-> DeskDown, screen |-> ScreenNoCv],
     [desk |-> DeskRun, screen |-> ScreenDialog],
     [desk |-> DeskPaint, screen |-> ScreenBlank],
     [desk |-> DeskPaint, screen |-> ScreenDrawn],
     [desk |-> DeskNotes, screen |-> ScreenDrawn]}

VerifierGoals == {GoalHouse, GoalOpenPaint, GoalNotepad, GoalEmpty}

str_paint == PyStr(kw_paint)

ExpectedStates ==
    {PyNone,
     PyDict([program_open |-> PyBool(FALSE)]),
     PyDict([program_open |-> PyBool(FALSE), paint_open |-> PyBool(TRUE)]),
     PyDict([program_open |-> PyBool(FALSE), window_title |-> str_paint]),
     PyDict([program_open |-> str_paint]),
     PyDict([program_open |-> PyStr(TitleNotes)]),
     PyDict([program_open |-> PyBool(TRUE)]),
     PyDict([paint_open |-> PyBool(FALSE)]),
     PyDict([window_title |-> PyStr(<<>>)])}

\* State dicts a caller passes: what ActionExecutor.capture_state returns, and
\* one carrying window_title and processes.
CallerStates ==
    {[active_window |-> PyStr(TitleRun), paint_open |-> PyBool(FALSE)],
     [window_title |-> PyStr(TitlePaint), processes |-> PyList(<<ProcPaint, ProcShell>>)]}

NoCall == [op |-> "none"]

VerifierInit ==
    /\ v_goal \in VerifierGoals
    /\ v_expected \in ExpectedStates
    /\ v_patterns \in PatternFiles
    /\ v_state \in CallerStates
    /\ v_call = NoCall
    /\ v_prev = NoCall

\* Whether verify_goal_completion gets to its re-check: the first screenshot
\* was taken and the first confidence is below 0.5.
rechecks(goal, current_state, expected_state, obs1, patterns) ==
    /\ obs1.screen.grab_ok
    /\ needs_recheck(calculate_verification_confidence(
          checks(goal, Update(current_state, get_current_state(obs1.desk)),
                 expected_state, obs1, patterns)))

\* The second observation is drawn only when the call makes one.
SecondLooks(goal, current_state, expected_state, obs1, patterns) ==
    IF rechecks(goal, current_state, expected_state, obs1, patterns)
    THEN Observations ELSE {obs1}

Returned(op, arg, r) ==
    [op |-> op, arg |-> arg, passed |-> r.passed, data |-> r.data,
     confidence |-> r.confidence, results |-> r.results, evals |-> r.evals,
     evaluations |-> r.evaluations]

\* verifier.verify_goal_completion(v_goal, v_state, v_expected)
CallVerifyGoalCompletion ==
    \E obs1 \in Observations :
      \E obs2 \in SecondLooks(v_goal, v_state, v_expected, obs1, v_patterns) :
        LET r == verify_goal_completion(v_goal, v_state, v_expected, obs1, obs2, v_patterns) IN
        /\ v_call' = Returned("verify_goal_completion", v_state, r)
        /\ v_state' = r.current_state
        /\ UNCHANGED <<v_goal, v_expected, v_patterns, v_prev, planner_vars, agent_vars, gui_vars>>

(***************************************************************************)
(* Agent.verify_action_result called again and again with the same action *)
(* and the same state dicts.                                                *)
(***************************************************************************)
ActionInit ==
    /\ v_goal \in {GoalHouse, GoalEmpty}
    /\ v_expected \in {PyNone, PyDict([program_open |-> str_paint])}
    /\ v_patterns \in PatternFiles \ {EmptyDict}
    /\ v_state \in CallerStates
    /\ v_call = NoCall
    /\ v_prev = NoCall

\* agent.verify_action_result(action, pre_state, v_state) for the action whose
\* expected_result is v_goal and whose expected_state is v_expected
CallVerifyActionResult ==
    \E obs1 \in Observations :
      \E obs2 \in SecondLooks(v_goal, v_state, v_expected, obs1, v_patterns) :
        LET action == [expected_result |-> PyStr(v_goal), expected_state |-> v_expected]
            r == verify_action_result(action, v_state, v_state, obs1, obs2, v_patterns)
        IN
        /\ v_call' = [op |-> "verify_action_result", arg |-> v_state, passed |-> r.passed]
        /\ v_prev' = v_call
        /\ v_state' = r.current_state
        /\ UNCHANGED <<v_goal, v_expected, v_patterns, planner_vars, agent_vars, gui_vars>>

(***************************************************************************)
(* Agent                                                                    *)
(***************************************************************************)
max_errors == 10
max_prereq_attempts == 3

\* An action of the Plan JSON: type, params, expected_result, expected_state.
Action(type, params, expected_result, verification) ==
    [type |-> type, params |-> params, expected_result |-> expected_result,
     expected_state |-> PyNone, verification |-> verification]

str_shown == PyStr(<<"p", "a", "i", "n", "t", " ", "s", "h", "o", "w", "n">>)
ActRun == Action("PRESS", [keys |-> "win+r"], str_shown, PyNone)
ActLaunch == Action("TYPE", [text |-> "mspaint", enter |-> TRUE], str_shown, PyNone)
ActBrush == Action("CLICK", [target |-> "tool_button"], PyNone, PyNone)
ActDraw == Action("DRAG", [target |-> "canvas"], str_shown, PyNone)

Step(name, description, actions, required_state) ==
    [name |-> name, description |-> description, actions |-> actions,
     required_state |-> required_state]

StepLaunch == Step("launch_paint", "Launch MS Paint", <<ActRun, ActLaunch>>, EmptyDict)
StepBrush == Step("select_brush", "Select the brush", <<ActBrush>>,
                  [program_open |-> PyBool(TRUE)])
StepDraw == Step("draw_house", "Draw the house", <<ActDraw>>, EmptyDict)
StepColor == Step("pick_color", "Pick a color", <<ActBrush>>, [color_selected |-> PyStr(<<"r">>)])

\* A plan dict: 'steps', 'current_step_index' and no 'expected_final_state'.
Plan(steps) == [t |-> "plan", steps |-> steps, current_step_index |-> 0]

\* The plans of a planner that honours the Plan contract of the data model
\* ({steps, currentStepIndex = 0}, at least one schema-valid step): the shape
\* set_goal, run and get_next_step read.
ContractPlans ==
    {Plan(<<StepLaunch, StepBrush, StepDraw>>),
     Plan(<<StepLaunch, StepDraw>>),
     Plan(<<StepColor>>)}

\* What self.goal_planner.break_down_goal(goal) may return to the Agent: the
\* GoalPlanner of goal_planner.py, or a planner honouring the Plan contract.
PlannerReturns(impl, goal) ==
    IF impl = "GoalPlanner"
    THEN {break_down_goal(goal, svc).ret : svc \in ServiceBehaviours}
    ELSE ContractPlans

\* bool(plan) and `'steps' in plan` for what current_plan may hold
IsPlan(plan) == plan.t = "plan"
PlanTruthy(plan) == IF IsPlan(plan) THEN TRUE ELSE Truthy(plan)
HasSteps(plan) == IsPlan(plan)

\* Agent.create_plan(goal), given what break_down_goal returned
create_plan(plan) ==
    IF PlanTruthy(plan) /\ HasSteps(plan) THEN [plan EXCEPT !.current_step_index = 0] ELSE plan

\* Agent.validate_step(step)
validate_step(step) == {"name", "description", "actions"} \subseteq DOMAIN step

\* Agent.get_next_step(): the step returned (PyNone for None) and the plan as
\* the call leaves it.  The index is incremented before the step is validated.
get_next_step(plan) ==
    IF ~PlanTruthy(plan) \/ ~HasSteps(plan) THEN [step |-> PyNone, plan |-> plan]
    ELSE LET current_index == plan.current_step_index IN
         IF current_index >= Len(plan.steps) THEN [step |-> PyNone, plan |-> plan]
         ELSE LET step == plan.steps[current_index + 1]
                  next == [plan EXCEPT !.current_step_index = current_index + 1]
              IN  IF validate_step(step) THEN [step |-> step, plan |-> next]
                  ELSE [step |-> PyNone, plan |-> next]

\* ActionExecutor.capture_state() while `window` is the foreground window
\* (timestamp, cursor_position and last_action are left out)
capture_state(window_title) ==
    [active_window |-> PyStr(window_title),
     paint_open |-> PyBool(Contains(kw_paint, Lower(window_title)))]

\* Agent._check_prerequisite(prereq_name, expected_value)
check_prerequisite(window_title, prereq_name, expected_value) ==
    LET current_state == capture_state(window_title) IN
    IF prereq_name = "program_open"
    THEN (IF "paint_open" \in DOMAIN current_state THEN current_state.paint_open
          ELSE PyBool(FALSE)) = expected_value
    ELSE IF prereq_name = "tool_selected"
    THEN Get(current_state, "current_tool") = expected_value
    ELSE IF prereq_name = "color_selected"
    THEN Get(current_state, "current_color") = expected_value
    ELSE FALSE

\* Agent.verify_prerequisites(step)
verify_prerequisites(window_title, step) ==
    \A k \in DOMAIN step.required_state :
        check_prerequisite(window_title, k, step.required_state[k])

\* Agent._get_prerequisite_resolution(prereq_name): a list of actions for
\* program_open, one action dict for tool_selected and color_selected, else None
get_prerequisite_resolution(prereq_name) ==
    IF prereq_name = "program_open"
    THEN PyList(<<Action("PRESS", [keys |-> "win+r"],
                         PyStr(<<"R", "u", "n", " ", "d", "i", "a", "l", "o", "g", " ",
                                 "o", "p", "e", "n", "s">>), PyStr(<<"R", "u", "n">>)),
                  Action("TYPE", [text |-> "mspaint", enter |-> TRUE],
                         PyStr(<<"P", "a", "i", "n", "t", " ", "o", "p", "e", "n", "s">>),
                         PyStr(<<"P", "a", "i", "n", "t">>))>>)
    ELSE IF prereq_name \in {"tool_selected", "color_selected"}
    THEN PyDict([type |-> "CLICK"])
    ELSE PyNone

\* Agent.detect_unexpected_state_change(pre_state, post_state)
detect_unexpected_state_change(pre_state, post_state) ==
    \E attr \in {"active_window", "paint_open", "paint_ready"} :
        Get(pre_state, attr) # Get(post_state, attr)

\* KnowledgeManager._similar_states(state1, state2)
similar_states(state1, state2) ==
    \A attr \in {"active_window", "paint_open", "paint_ready"} :
        Get(state1, attr) = Get(state2, attr)

\* KnowledgeManager.get_alternative_actions(failed_action, current_state) over
\* the entries of successful_actions.json, in file order
RECURSIVE get_alternative_actions(_, _)
get_alternative_actions(entries, current_state) ==
    IF entries = <<>> THEN <<>>
    ELSE (IF similar_states(Head(entries).pre_state, current_state)
          THEN <<Head(entries).action>> ELSE <<>>)
         \o get_alternative_actions(Tail(entries), current_state)

\* Agent.create_recovery_steps(failed_action, current_state)
create_recovery_steps(current_state) ==
    IF "paint_ready" \in DOMAIN current_state /\ ~Truthy(current_state.paint_ready)
    THEN <<[name |-> "restore_paint_window", description |-> "Restore Paint window",
            actions |-> <<Action("PRESS", [keys |-> "alt+tab"], PyNone, PyNone)>>]>>
    ELSE <<>>

\* What a goal-level verify_goal_completion can hand check_goal_completion:
\* (False, None) from its except path, or a confidence of the last evaluation.
CheckResults ==
    {[visual_check |-> IF v THEN PyDict([p |-> [matched |-> TRUE]]) ELSE PyDict(EmptyDict),
      state_check |-> st, goal_specific |-> g] : v \in BOOLEAN, st \in BOOLEAN, g \in BOOLEAN}
\* Whether json.dumps takes the results: _verify_drawing_present answers with
\* a numpy bool (`non_white_pixels > 1000`) when it finds a canvas, and with
\* the Python False when it finds none or raises; a numpy bool is not JSON
\* serializable.  Only goals with "draw" in them reach that check.
Dumpable(goal_text, r) ==
    IF Contains(kw_draw, Lower(goal_text))
    THEN IF r.goal_specific THEN {FALSE} ELSE BOOLEAN
    ELSE {TRUE}
GoalVerifications(goal_text) ==
    {[data |-> FALSE, confidence |-> None, passed |-> FALSE, dumps_ok |-> TRUE]}
    \cup UNION {{[data |-> TRUE, confidence |-> calculate_verification_confidence(r),
                  passed |-> calculate_verification_confidence(r) > pass_above,
                  dumps_ok |-> ok] : ok \in Dumpable(goal_text, r)} : r \in CheckResults}

continue_above == 5

\* ActionExecutor.verify_action_result(action, pre_state, post_state) while
\* current_window is in the foreground (no action carries expected_changes)
executor_verify_action_result(action, current_window) ==
    IF Truthy(action.verification)
    THEN Contains(Lower(action.verification.v), Lower(current_window))
    ELSE TRUE

\* ActionExecutor.execute(action): False when the input backend raises, else
\* what the executor's own verification says about the window the action left
execute(action, backend_ok, current_window) ==
    backend_ok /\ executor_verify_action_result(action, current_window)

\* Agent.verify_action_result(action, pre_state, post_state): True without an
\* expected_result, otherwise what a fresh GoalVerifier finds on the desktop
ActionVerifications(action) ==
    IF Truthy(action.expected_result) THEN BOOLEAN ELSE {TRUE}

Windows == {TitleRun, TitlePaint, TitleNotes}

Entry(action, w) == [action |-> action, pre_state |-> capture_state(w)]
KnowledgeFiles ==
    {<<>>, <<Entry(ActRun, TitleRun)>>, <<Entry(ActBrush, TitleNotes), Entry(ActRun, TitleNotes)>>}

AgentGoals == {PyStr(GoalHouse), PyStr(GoalNotepad)}

DispatchCap == 11
ReplanCap == 2

NoLocals ==
    [step |-> PyNone, act_i |-> 0, prereq_attempts |-> 0, over |-> FALSE, state_name |-> "",
     res_i |-> 0, alts |-> <<>>, action_success |-> FALSE, verified |-> TRUE,
     vfail_stored |-> FALSE, changed |-> FALSE, prev_similar |-> FALSE]
\* loc.changed: the snapshots run() took before and after the action just
\* executed differ on a key attribute.  loc.prev_similar: the action before
\* this one in the step succeeded from a pre-state that agrees on the key
\* attributes with the state the desktop is in now.
\* hist.transition_stored: states/transitions.json holds an entry; it is
\* written by handle_unexpected_state only, which nothing calls.
\* The last goal-level verification of the run: its confidence, what
\* check_goal_completion did about it, whether store_failed_attempt wrote it.
NoCheck == [confidence |-> None, took |-> "none", recorded |-> FALSE]
NoHistory ==
    [stop_called |-> FALSE, ok_seen |-> FALSE, fail_seen |-> FALSE, failed |-> 0,
     replans |-> 0, shortfall |-> FALSE, checks |-> FALSE, end_reason |-> "none",
     selected |-> <<>>, check |-> NoCheck, transition_stored |-> FALSE]

\* AgentGUI.active_threads: no thread started yet.  A thread is at "called"
\* (started, run() not entered), "loop" (the while test and get_next_step),
\* "prereq" (the prerequisite loop), "actions" (before an action of the step),
\* "executing" (inside executor.execute, which sleeps for seconds) or "done".
MaxRuns == 2
RunIds == 1..MaxRuns
NoWorker == [pc |-> "none", step |-> PyNone, act_i |-> 0]
NoWorkers == [w \in RunIds |-> NoWorker]

\* The Agent after construction, with no goal set.
AgentIdle ==
    /\ self_goal = PyNone /\ current_plan = PyNone /\ running = FALSE /\ error_count = 0
    /\ set_goal_ret = "unset" /\ run_pc = "idle" /\ run_ret = "unset"
    /\ loc = NoLocals /\ plan_thread = "none" /\ hist = NoHistory
    /\ workers = NoWorkers

AgentInit ==
    /\ AgentIdle
    /\ goal_planner \in {"GoalPlanner", "PlanContract"}
    /\ window \in Windows
    /\ successes \in KnowledgeFiles

Bump(n, cap) == IF n < cap THEN n + 1 ELSE cap
Dispatched(h, ok) ==
    [h EXCEPT !.ok_seen = @ \/ ok, !.fail_seen = @ \/ ~ok,
              !.failed = IF ok THEN 0 ELSE Bump(@, DispatchCap)]
\* self.current_plan is assigned another plan object
Assigned(h) == [h EXCEPT !.selected = <<>>]
Replanned(h) == Assigned([h EXCEPT !.replans = Bump(@, ReplanCap)])

\* agent.set_goal(goal), before the worker is started
SetGoal ==
    /\ run_pc = "idle"
    /\ \E g \in AgentGoals : \E plan \in PlannerReturns(goal_planner, g) :
        /\ self_goal' = g
        /\ current_plan' = create_plan(plan)
        /\ set_goal_ret' = IF PlanTruthy(plan) /\ HasSteps(plan) THEN "True" ELSE "False"
    /\ hist' = Assigned(hist)
    /\ UNCHANGED <<goal_planner, running, error_count, window, successes, run_pc, run_ret,
                   loc, plan_thread, planner_vars, verifier_vars, gui_vars>>

\* the worker thread that calls agent.run() is started
CallRun ==
    /\ run_pc = "idle"
    /\ run_pc' = "called"
    /\ UNCHANGED <<goal_planner, self_goal, current_plan, running, error_count, window, successes,
                   set_goal_ret, run_ret, loc, plan_thread, hist, planner_vars, verifier_vars, gui_vars>>

\* run(): running = True, error_count = 0, _get_llm_feedback (which changes
\* nothing), the plan thread is started
RunBegin ==
    /\ run_pc = "called"
    /\ running' = TRUE
    /\ error_count' = 0
    /\ plan_thread' = "started"
    /\ run_pc' = "loop"
    /\ UNCHANGED <<goal_planner, self_goal, current_plan, window, successes, set_goal_ret, run_ret,
                   loc, hist, planner_vars, verifier_vars, gui_vars>>

\* create_plan_thread: current_plan = create_plan(goal), then the log line
\* that subscripts it
PlanThread ==
    /\ plan_thread = "started"
    /\ \E plan \in PlannerReturns(goal_planner, self_goal) :
        /\ current_plan' = create_plan(plan)
        /\ plan_thread' = IF IsPlan(plan) THEN "finished" ELSE "raised"
    /\ hist' = Assigned(hist)
    /\ UNCHANGED <<goal_planner, self_goal, running, error_count, window, successes, set_goal_ret,
                   run_pc, run_ret, loc, planner_vars, verifier_vars, gui_vars>>

\* agent.stop(), from the GUI thread (current_task is never set: no join)
Stop ==
    /\ run_pc \notin {"idle", "done"}
    /\ ~hist.stop_called
    /\ running' = FALSE
    /\ hist' = [hist EXCEPT !.stop_called = TRUE]
    /\ UNCHANGED <<goal_planner, self_goal, current_plan, error_count, window, successes,
                   set_goal_ret, run_pc, run_ret, loc, plan_thread, planner_vars, verifier_vars, gui_vars>>

\* The desktop while run() is in its prerequisite loop: another window comes
\* to the foreground (win32gui.GetForegroundWindow answers with it from now
\* on).  Elsewhere the window run() reads next is the one an execute leaves,
\* which is any window already.
Desktop ==
    /\ run_pc = "prereq"
    /\ \E w \in Windows \ {window} : window' = w
    /\ UNCHANGED <<goal_planner, self_goal, current_plan, running, error_count, successes,
                   set_goal_ret, run_pc, run_ret, loc, plan_thread, hist, planner_vars,
                   verifier_vars, gui_vars>>

\* run() is left: `finally` clears running; ret is what the call evaluates to
Finish(ret, reason, l, h) ==
    /\ run_pc' = "done"
    /\ run_ret' = ret
    /\ running' = FALSE
    /\ loc' = l
    /\ hist' = [h EXCEPT !.end_reason = reason]

\* run() goes on to another statement
Goto(pc, l, h) ==
    /\ run_pc' = pc
    /\ loc' = l
    /\ hist' = h
    /\ UNCHANGED <<running, run_ret>>

RunFrame ==
    UNCHANGED <<goal_planner, self_goal, error_count, successes, set_goal_ret, plan_thread,
                planner_vars, verifier_vars, gui_vars>>

\* Agent.replan(): current_plan = break_down_goal(goal); it returns None
replan(plan) == current_plan' = plan

\* run(), top of `while self.running`: leave when stopped, poll while there
\* is no plan, break without steps, else take the next step
RunLoop ==
    /\ run_pc = "loop"
    /\ RunFrame
    /\ UNCHANGED window
    /\ IF ~running
       THEN Finish("None", "stopped", loc, hist) /\ UNCHANGED current_plan
       ELSE IF ~PlanTruthy(current_plan)
       THEN UNCHANGED <<current_plan, running, run_pc, run_ret, loc, hist>>
       ELSE IF ~IsPlan(current_plan)
       THEN Finish("None", "exception", loc, hist) /\ UNCHANGED current_plan
       ELSE IF current_plan.steps = <<>>
       THEN Finish("None", "no_steps", loc, hist) /\ UNCHANGED current_plan
       ELSE LET r == get_next_step(current_plan) IN
            /\ current_plan' = r.plan
            /\ IF r.step = PyNone
               THEN Finish("None", "no_step", loc, hist)
               ELSE Goto("prereq", [NoLocals EXCEPT !.step = r.step],
                         [hist EXCEPT !.selected = Append(@, r.plan.current_step_index)])

\* run(), `if prereq_attempts > max_prereq_attempts`
prereq_never_exhausted(prereq_attempts) == FALSE
prereq_exhausted(prereq_attempts) == prereq_attempts > max_prereq_attempts

Unmet(w, step) ==
    {k \in DOMAIN step.required_state : ~check_prerequisite(w, k, step.required_state[k])}

\* run(), `while self.running and not self.verify_prerequisites(step)`: the
\* timeout, the attempt count, and handle_missing_prerequisites up to its
\* first resolution action.  loc.over says that more than max_prereq_time has
\* passed since start_time; time may run out before any reading of the clock.
\* handle_missing_prerequisites looks at the desktop again: when it finds
\* nothing unmet it returns True at once.
RunPrereq ==
    /\ run_pc = "prereq"
    /\ RunFrame
    /\ UNCHANGED current_plan
    /\ IF ~running
       THEN Finish("False", "stopped", loc, hist) /\ UNCHANGED window
       ELSE IF verify_prerequisites(window, loc.step)
       THEN Goto("post_prereq", loc, hist) /\ UNCHANGED window
       ELSE \E late \in BOOLEAN, w \in Windows :
              IF loc.over \/ late
              THEN /\ Finish("False", "prereq_timeout", [loc EXCEPT !.over = TRUE], hist)
                   /\ UNCHANGED window
              ELSE LET prereq_attempts == loc.prereq_attempts + 1
                       l == [loc EXCEPT !.prereq_attempts = prereq_attempts]
                   IN
                   IF prereq_exhausted(prereq_attempts)
                   THEN Finish("False", "prereq_attempts", l, hist) /\ UNCHANGED window
                   ELSE /\ window' = w
                        /\ IF Unmet(w, loc.step) = {}
                           THEN Goto("prereq", l, hist)
                           ELSE LET state_name == CHOOSE k \in Unmet(w, loc.step) : TRUE
                                    resolution_actions == get_prerequisite_resolution(state_name)
                                IN
                                IF resolution_actions.t # "list"
                                THEN Finish("False", "prereq_unresolved", l, hist)
                                ELSE Goto("resolve",
                                          [l EXCEPT !.state_name = state_name, !.res_i = 1],
                                          hist)

\* handle_missing_prerequisites, one resolution action: execute it, verify it
\* (either outcome goes on), and after the last one check the prerequisite.
\* Each execute sleeps 4 s before and 4 s after the keys: after the two
\* resolution actions more than max_prereq_time has passed.
RunResolve ==
    /\ run_pc = "resolve"
    /\ RunFrame
    /\ UNCHANGED current_plan
    /\ \E backend_ok \in BOOLEAN, w \in Windows :
        LET resolution_actions == get_prerequisite_resolution(loc.state_name).v
            action == resolution_actions[loc.res_i]
            success == execute(action, backend_ok, w)
            h == Dispatched(hist, success)
        IN
        /\ window' = w
        /\ IF ~success
           THEN Finish("False", "prereq_unresolved", loc, h)
           ELSE IF loc.res_i < Len(resolution_actions)
           THEN Goto("resolve", [loc EXCEPT !.res_i = @ + 1], h)
           ELSE IF ~check_prerequisite(w, loc.state_name,
                                       loc.step.required_state[loc.state_name])
           THEN Finish("False", "prereq_unresolved", loc, h)
           ELSE Goto("prereq", [loc EXCEPT !.over = TRUE], h)

\* run(), `if not self.running: return False` after the prerequisite loop
RunPostPrereq ==
    /\ run_pc = "post_prereq"
    /\ RunFrame
    /\ UNCHANGED <<current_plan, window>>
    /\ IF ~running
       THEN Finish("False", "stopped", loc, hist)
       ELSE IF loc.step.actions = <<>>
       THEN Goto("advance", loc, hist)
       ELSE Goto("actions", [loc EXCEPT !.act_i = 1], hist)

\* run(), one iteration of `for action in step['actions']` up to the return
\* of self.executor.execute(action)
RunAction ==
    /\ run_pc = "actions"
    /\ RunFrame
    /\ UNCHANGED current_plan
    /\ IF ~running
       THEN Finish("False", "stopped", loc, hist) /\ UNCHANGED window
       ELSE \E backend_ok \in BOOLEAN, w \in Windows :
             LET action_success == execute(loc.step.actions[loc.act_i], backend_ok, w)
                 changed == detect_unexpected_state_change(capture_state(window),
                                                           capture_state(w))
             IN
             /\ window' = w
             /\ Goto("executed", [loc EXCEPT !.action_success = action_success,
                                              !.changed = changed,
                                              !.prev_similar = @ /\ ~changed],
                     Dispatched(hist, action_success))

AfterAction(l, h) ==
    IF l.act_i < Len(l.step.actions)
    THEN Goto("actions", [l EXCEPT !.act_i = @ + 1], h)
    ELSE Goto("advance", [l EXCEPT !.prev_similar = FALSE], h)

\* KnowledgeManager.store_verification_failure(action, state): an entry is
\* appended to verifications/failures.json, which then holds an entry
store_verification_failure_lost(stored) == stored
store_verification_failure(stored) == TRUE

InsertAt(seq, i, new) == SubSeq(seq, 1, i) \o new \o SubSeq(seq, i + 1, Len(seq))

\* The locals after a failed action: the snapshot comparison is over
Failed(l) == [l EXCEPT !.changed = FALSE, !.prev_similar = FALSE]

\* run(), the rest of the iteration: on failure handle_failure, the
\* error_count test and try_alternative_approach up to its first execute, or
\* `return self.replan()`; on success verify_action_result and
\* handle_verification_failure
RunExecuted ==
    /\ run_pc = "executed"
    /\ RunFrame
    /\ UNCHANGED window
    /\ IF ~loc.action_success
       THEN IF error_count >= max_errors
            THEN Finish("False", "errors", Failed(loc), hist) /\ UNCHANGED current_plan
            ELSE LET alternatives == get_alternative_actions(successes, capture_state(window)) IN
                 IF alternatives = <<>>
                 THEN \E plan \in PlannerReturns(goal_planner, self_goal) :
                        replan(plan) /\ Finish("None", "replan", Failed(loc), Replanned(hist))
                 ELSE /\ Goto("alternatives", [Failed(loc) EXCEPT !.alts = alternatives], hist)
                      /\ UNCHANGED current_plan
       ELSE \E verified \in ActionVerifications(loc.step.actions[loc.act_i]) :
              LET recovery_steps ==
                      IF verified THEN <<>> ELSE create_recovery_steps(capture_state(window))
                  h == [hist EXCEPT !.shortfall = @ \/ ~verified]
                  l == [loc EXCEPT !.verified = verified,
                                   !.vfail_stored = IF verified THEN @
                                                    ELSE store_verification_failure(@),
                                   !.prev_similar = ~loc.changed,
                                   !.changed = FALSE]
              IN
              IF recovery_steps = <<>>
              THEN AfterAction(l, h) /\ UNCHANGED current_plan
              ELSE IF ~IsPlan(current_plan)
              THEN Finish("None", "exception", l, h) /\ UNCHANGED current_plan
              ELSE /\ current_plan' =
                        [current_plan EXCEPT
                            !.steps = InsertAt(@, current_plan.current_step_index, recovery_steps)]
                   /\ AfterAction(l, h)

\* try_alternative_approach, one alternative: a success reaches
\* store_successful_alternative, which KnowledgeManager does not define
RunAlternative ==
    /\ run_pc = "alternatives"
    /\ RunFrame
    /\ \E backend_ok \in BOOLEAN, w \in Windows :
        LET success == execute(Head(loc.alts), backend_ok, w)
            h == Dispatched(hist, success)
        IN
        /\ window' = w
        /\ IF success
           THEN Finish("None", "exception", loc, h) /\ UNCHANGED current_plan
           ELSE IF Tail(loc.alts) # <<>>
           THEN Goto("alternatives", [loc EXCEPT !.alts = Tail(@)], h) /\ UNCHANGED current_plan
           ELSE \E plan \in PlannerReturns(goal_planner, self_goal) :
                  replan(plan) /\ Finish("None", "replan", loc, Replanned(h))

\* run(), after the actions of the step: current_step_index += 1, then
\* check_goal_completion() with handle_low_confidence_state.  On a failed
\* verification the debug line's json.dumps(verification_data) comes first:
\* when it raises, or when verification_data is None, the except of
\* check_goal_completion returns False and nothing else is done.
Checked(h, v, took, recorded) ==
    [h EXCEPT !.checks = TRUE, !.shortfall = @ \/ ~v.passed,
              !.check = [confidence |-> v.confidence, took |-> took, recorded |-> recorded]]

RunAdvance ==
    /\ run_pc = "advance"
    /\ RunFrame
    /\ UNCHANGED window
    /\ IF ~IsPlan(current_plan)
       THEN Finish("None", "exception", loc, hist) /\ UNCHANGED current_plan
       ELSE LET plan == [current_plan EXCEPT !.current_step_index = @ + 1] IN
            \E v \in IF self_goal = PyNone THEN {x \in GoalVerifications(<<>>) : ~x.data}
                     ELSE GoalVerifications(self_goal.v) :
              IF v.passed
              THEN /\ current_plan' = plan
                   /\ Finish("None", "completed", loc, Checked(hist, v, "success", FALSE))
              ELSE IF ~v.data \/ ~v.dumps_ok \/ v.confidence > continue_above
              THEN /\ current_plan' = plan
                   /\ Goto("loop", loc, Checked(hist, v, "continue", FALSE))
              ELSE IF error_count < max_errors
              THEN \E new \in PlannerReturns(goal_planner, self_goal) :
                     /\ replan(new)
                     /\ running' = IF PlanTruthy(new) THEN running ELSE FALSE
                     /\ run_pc' = "loop" /\ loc' = loc
                     /\ hist' = Replanned(Checked(hist, v, "replan", TRUE))
                     /\ UNCHANGED run_ret
              ELSE /\ current_plan' = plan
                   /\ running' = FALSE
                   /\ run_pc' = "loop" /\ loc' = loc
                   /\ hist' = Checked(hist, v, "stop", TRUE)
                   /\ UNCHANGED run_ret

(***************************************************************************)
(* The Start button pressed again and again: every press that sets a goal   *)
(* starts one more thread on agent.run() of the same Agent.  A thread is    *)
(* followed through its dispatches; a thread whose step has an unmet        *)
(* prerequisite is left in the prerequisite loop, every execute succeeds     *)
(* and verifies, and the plan thread of run() is left unscheduled.          *)
(***************************************************************************)
RunsFrame ==
    UNCHANGED <<goal_planner, error_count, window, successes, run_pc, run_ret, loc,
                plan_thread, hist, planner_vars, verifier_vars>>

\* AgentGUI.start_agent(): agent.set_goal(goal) and, when it returns True, a
\* new thread on _run_agent_with_color_reset
StartAgent ==
    /\ \E w \in RunIds :
        /\ workers[w].pc = "none"
        /\ \A v \in RunIds : v < w => workers[v].pc # "none"
        /\ \E g \in AgentGoals : \E plan \in PlannerReturns(goal_planner, g) :
            LET ok == PlanTruthy(plan) /\ HasSteps(plan) IN
            /\ self_goal' = g
            /\ current_plan' = create_plan(plan)
            /\ set_goal_ret' = IF ok THEN "True" ELSE "False"
            /\ workers' = IF ok THEN [workers EXCEPT ![w].pc = "called"] ELSE workers
    /\ UNCHANGED running
    /\ RunsFrame

\* run() entered by thread w: running = True, error_count = 0
WorkerBegin ==
    \E w \in RunIds :
        /\ workers[w].pc = "called"
        /\ running' = TRUE
        /\ workers' = [workers EXCEPT ![w].pc = "loop"]
        /\ UNCHANGED <<self_goal, current_plan, set_goal_ret>>
        /\ RunsFrame

WorkerLeaves(w) ==
    /\ running' = FALSE
    /\ workers' = [workers EXCEPT ![w] = [NoWorker EXCEPT !.pc = "done"]]

\* the while test of run() and get_next_step(), by thread w
WorkerLoop ==
    \E w \in RunIds :
        /\ workers[w].pc = "loop"
        /\ UNCHANGED <<self_goal, set_goal_ret>>
        /\ RunsFrame
        /\ IF ~running \/ ~IsPlan(current_plan)
           THEN WorkerLeaves(w) /\ UNCHANGED current_plan
           ELSE IF current_plan.steps = <<>>
           THEN WorkerLeaves(w) /\ UNCHANGED current_plan
           ELSE LET r == get_next_step(current_plan) IN
                /\ current_plan' = r.plan
                /\ IF r.step = PyNone
                   THEN WorkerLeaves(w)
                   ELSE /\ workers' = [workers EXCEPT ![w] =
                              [pc |-> IF verify_prerequisites(window, r.step)
                                      THEN "actions" ELSE "prereq",
                               step |-> r.step, act_i |-> 1]]
                        /\ UNCHANGED running

\* `if not self.running: return False`, else executor.execute(action) is
\* entered by thread w
WorkerDispatch ==
    \E w \in RunIds :
        /\ workers[w].pc = "actions"
        /\ UNCHANGED <<self_goal, current_plan, set_goal_ret>>
        /\ RunsFrame
        /\ IF ~running
           THEN WorkerLeaves(w)
           ELSE workers' = [workers EXCEPT ![w].pc = "executing"] /\ UNCHANGED running

\* execute returns True to thread w and the action verifies: the next action,
\* or current_step_index += 1 and check_goal_completion(), which ends the run
\* or not
WorkerReturn ==
    \E w \in RunIds :
        /\ workers[w].pc = "executing"
        /\ UNCHANGED <<self_goal, set_goal_ret>>
        /\ RunsFrame
        /\ IF workers[w].act_i < Len(workers[w].step.actions)
           THEN /\ workers' = [workers EXCEPT ![w].pc = "actions", ![w].act_i = @ + 1]
                /\ UNCHANGED <<current_plan, running>>
           ELSE IF ~IsPlan(current_plan)
           THEN WorkerLeaves(w) /\ UNCHANGED current_plan
           ELSE /\ current_plan' = [current_plan EXCEPT !.current_step_index = @ + 1]
                /\ \/ WorkerLeaves(w)
                   \/ /\ workers' = [workers EXCEPT ![w] = [NoWorker EXCEPT !.pc = "loop"]]
                      /\ UNCHANGED running

\* AgentGUI.stop_agent(): agent.stop()
StopAgent ==
    /\ running
    /\ running' = FALSE
    /\ UNCHANGED <<self_goal, current_plan, set_goal_ret, workers>>
    /\ RunsFrame

(***************************************************************************)
(* Specifications                                                           *)
(***************************************************************************)
vars == <<planner_vars, verifier_vars, agent_vars, gui_vars>>

\* An Agent that takes no part: constructed over GoalPlanner, nothing called.
AgentStill ==
    /\ AgentIdle /\ goal_planner = "GoalPlanner" /\ window = TitleRun /\ successes = <<>>

VerifierIdle ==
    /\ v_goal = GoalEmpty /\ v_expected = PyNone /\ v_patterns = EmptyDict
    /\ v_state = EmptyDict /\ v_call = NoCall /\ v_prev = NoCall

InitPlanner == PlannerInit /\ VerifierIdle /\ AgentStill
NextPlanner == CallBreakDownGoal \/ CallCreateFallbackSteps
SpecPlanner == InitPlanner /\ [][NextPlanner]_vars

InitVerifier == VerifierInit /\ PlannerInit /\ AgentStill
NextVerifier == CallVerifyGoalCompletion
SpecVerifier == InitVerifier /\ [][NextVerifier]_vars

InitAction == ActionInit /\ PlannerInit /\ AgentStill
NextAction == CallVerifyActionResult
SpecAction == InitAction /\ [][NextAction]_vars

InitAgent == AgentInit /\ PlannerInit /\ VerifierIdle
NextAgent ==
    \/ SetGoal \/ CallRun \/ RunBegin \/ PlanThread \/ Stop \/ Desktop
    \/ RunLoop \/ RunPrereq \/ RunResolve \/ RunPostPrereq
    \/ RunAction \/ RunExecuted \/ RunAlternative \/ RunAdvance
SpecAgent == InitAgent /\ [][NextAgent]_vars

InitRuns == AgentInit /\ PlannerInit /\ VerifierIdle
NextRuns ==
    \/ StartAgent \/ WorkerBegin \/ WorkerLoop \/ WorkerDispatch \/ WorkerReturn
    \/ StopAgent
SpecRuns == InitRuns /\ [][NextRuns]_vars

\* the steps of the thread that executes run(), and the agent under a
\* scheduler that lets the run thread and the plan thread make progress
RunWorker ==
    \/ RunBegin \/ RunLoop \/ RunPrereq \/ RunResolve \/ RunPostPrereq
    \/ RunAction \/ RunExecuted \/ RunAlternative \/ RunAdvance
FairAgent == SpecAgent /\ WF_vars(RunWorker) /\ WF_vars(PlanThread)

(***************************************************************************)
(* Properties                                                               *)
(***************************************************************************)
BrokeDown == planner_call.op = "break_down_goal"
Verified == v_call.op = "verify_goal_completion" /\ v_call.data
Dict(x) == x.t = "dict"

\* d without the key k
Without(d, k) == [x \in DOMAIN d \ {k} |-> d[x]]

\* C1: a run that has ended, in which every action dispatch failed and stop was
\* never called, returned False after exactly max_errors consecutive failed
\* dispatches.
C1_ErrorBudget ==
    (run_pc = "done" /\ hist.fail_seen /\ ~hist.ok_seen /\ ~hist.stop_called)
        => (run_ret = "False" /\ hist.failed = max_errors)

\* C2: a run for "draw a house in paint" that has ended, in which every
\* dispatch succeeded, every verification passed and stop was never called,
\* returned True with current_step_index at len(steps) and without replanning.
C2_HappyPath ==
    (/\ run_pc = "done" /\ self_goal = PyStr(GoalHouse) /\ hist.checks
     /\ ~hist.fail_seen /\ ~hist.shortfall /\ ~hist.stop_called)
        => (/\ run_ret = "True"
            /\ IsPlan(current_plan)
            /\ current_plan.current_step_index = Len(current_plan.steps)
            /\ hist.replans = 0)

\* C3: a run that has ended returned a boolean: True exactly when it ended
\* because the goal was confirmed, False on every other path.
C3_BooleanResult ==
    run_pc = "done"
        => (/\ run_ret \in {"True", "False"}
            /\ (run_ret = "True" <=> hist.end_reason = "completed"))

\* C11: whenever there is a plan, its current_step_index is between 0 and
\* len(steps).
C11_IndexBounded ==
    IsPlan(current_plan)
        => current_plan.current_step_index \in 0..Len(current_plan.steps)

\* A step of run() that makes an executor.execute call.
Dispatches == RunResolve \/ RunAlternative \/ (RunAction /\ running)

\* C12: once stop() has cleared the running flag of a run, no further execute
\* call is started: not for a step action, a prerequisite-resolution action or
\* an alternative action.
C12_NoDispatchAfterStop == [][(hist.stop_called /\ ~running) => ~Dispatches]_vars

FailingService == [i \in 1..max_retries |-> "raises"]

\* C14: after set_goal(goal) over the GoalPlanner, with the plan that
\* break_down_goal gives when the Planning Service fails on every attempt,
\* set_goal returned True and the plan is in place with current_step_index 0.
C14_FallbackAccepted ==
    (/\ goal_planner = "GoalPlanner" /\ run_pc = "idle" /\ set_goal_ret # "unset"
     /\ current_plan = create_plan(break_down_goal(self_goal, FailingService).ret))
        => (/\ set_goal_ret = "True"
            /\ IsPlan(current_plan)
            /\ current_plan.current_step_index = 0)

\* C15: run() does not return at the replanning that follows a failed action
\* with no successful alternative, when that replanning yields a plan.
C15_ReplanContinues ==
    ~(run_pc = "done" /\ hist.end_reason = "replan" /\ PlanTruthy(current_plan))

\* C16: the plan thread started by run() never assigns current_plan once the
\* loop has selected a step from the plan in place.
C16_SingleWriter == [][PlanThread => hist.selected = <<>>]_vars

\* C17: in a run with no failed action, no replanning and no stop, the steps
\* selected from a plan are its steps 1, 2, 3, ... in order, none skipped.
C17_NoStepSkipped ==
    (~hist.fail_seen /\ hist.replans = 0 /\ ~hist.stop_called)
        => \A i \in 1..Len(hist.selected) : hist.selected[i] = i

\* C18: once stop() has been called for a started run worker, the running
\* flag is not set again: the run loop sees the stop.
C18_StopNotLost ==
    (hist.stop_called /\ run_pc # "called") => ~running

\* C19: a run that has replanned after a low-confidence goal verification, in
\* which every action succeeds and every goal verification yields a
\* confidence of at most 0.5 that reaches the low-confidence handling,
\* eventually ends with run() returning False (Failed), when the threads are
\* scheduled fairly.
LowConfidenceRun ==
    /\ ~hist.fail_seen /\ ~hist.stop_called
    /\ hist.checks => /\ hist.check.confidence \in 0..continue_above
                      /\ hist.check.took \in {"replan", "stop"}
C19_LowConfidenceTerminates ==
    (LowConfidenceRun /\ hist.check.took = "replan")
        ~> (~LowConfidenceRun \/ (run_pc = "done" /\ run_ret = "False"))

\* C20: the outcome of the last goal verification follows its confidence:
\* above 0.8 the run stops with success; above 0.5 and at most 0.8 the run
\* continues with no replanning and no failed-attempt record; at most 0.5 the
\* failed attempt is recorded and the run replans or stops.
C20_ThreeOutcomes ==
    hist.checks =>
        /\ hist.check.confidence > pass_above => hist.check.took = "success"
        /\ hist.check.confidence \in (continue_above + 1)..pass_above
              => (hist.check.took = "continue" /\ ~hist.check.recorded)
        /\ hist.check.confidence \in 0..continue_above
              => (hist.check.recorded /\ hist.check.took \in {"replan", "stop"})

\* C21: once run() has handled a failed action dispatch and turned to the
\* alternative actions, error_count has counted that failure: it is at least 1
\* and at most max_errors.
C21_ErrorCountCounts ==
    (run_pc = "alternatives" /\ hist.failed > 0) => error_count \in 1..max_errors

Accepting(svc) == {i \in 1..max_retries : svc[i] = "steps"}
C23_BoundedRetry ==
    BrokeDown =>
        /\ planner_call.calls <= max_retries
        /\ \A i \in Accepting(planner_call.svc) :
              (\A j \in Accepting(planner_call.svc) : i <= j)
                  => (planner_call.calls = i /\ planner_call.ret = PyList(ServiceSteps))
        /\ Accepting(planner_call.svc) = {} => planner_call.calls = max_retries

\* C24: a verify_goal_completion call that returns verification data has
\* evaluated the three checks once when the first confidence is at least 0.5
\* and exactly twice when it is below 0.5, whatever the second evaluation
\* gives; the results and the confidence returned are those of the last
\* evaluation.
C24_RecheckOnce ==
    Verified =>
        LET n == Len(v_call.evaluations) IN
        /\ n >= 1
        /\ n = IF calculate_verification_confidence(v_call.evaluations[1]) < 5 THEN 2 ELSE 1
        /\ v_call.results = v_call.evaluations[n]
        /\ v_call.confidence = calculate_verification_confidence(v_call.evaluations[n])
C24_Witness ==
    /\ Verified /\ Len(v_call.evaluations) = 2
    /\ v_call.evaluations[1] # v_call.evaluations[2]
    /\ v_call.confidence < 5
    /\ v_call.results = v_call.evaluations[2]

\* C25: an expected_state entry whose expected value is False or empty, under
\* any key, never makes the state check fail: with it, the check gives what it
\* gives without it.
C25_FalsyExpectedSkipped ==
    (Verified /\ Dict(v_expected))
    => \A key \in DOMAIN v_expected.v :
          ~Truthy(v_expected.v[key])
              => v_call.results.state_check =
                   verify_state_requirements(v_state, PyDict(Without(v_expected.v, key)))

\* C26: at no time are two threads of one Agent inside executor.execute.
C26_OneExecuteAtATime ==
    Cardinality({w \in RunIds : workers[w].pc = "executing"}) <= 1

\* C27: when the plan thread of run() has failed and left no plan, run()
\* eventually ends returning False (Failed) unless stop() is called; it does
\* not wait for a plan forever.
C27_NoPlanTerminates ==
    (plan_thread = "raised" /\ ~PlanTruthy(current_plan))
        ~> (hist.stop_called \/ (run_pc = "done" /\ run_ret = "False"))

\* C29: the confidence returned holds the 0.4 of the visual check only when
\* the visual check matched at least one pattern at or above its threshold.
VisualCounted ==
    v_call.confidence - (IF v_call.results.state_check THEN 3 ELSE 0)
                      - (IF v_call.results.goal_specific THEN 3 ELSE 0) = 4
C29_VisualNeedsMatch ==
    (Verified /\ VisualCounted)
        => /\ Dict(v_call.results.visual_check)
           /\ \E n \in DOMAIN v_call.results.visual_check.v :
                 v_call.results.visual_check.v[n].matched

\* C28: when an action of a step fails in a state that agrees on
\* active_window, paint_open and paint_ready with the pre-state from which
\* run() executed the action before it successfully, that earlier action is
\* among the alternative actions tried for the failure
C28_SuccessIsAlternative ==
    [][(RunExecuted /\ ~loc.action_success /\ error_count < max_errors
            /\ loc.act_i > 1 /\ loc.prev_similar)
        => /\ run_pc' = "alternatives"
           /\ \E i \in 1..Len(loc'.alts) :
                 loc'.alts[i] = loc.step.actions[loc.act_i - 1]]_vars

\* C30: after an action dispatched by run() that has no expected result,
\* when the snapshots taken before and after it differ on active_window,
\* paint_open or paint_ready, the transition is stored in the knowledge
\* store before run() goes on
C30_UnexpectedChangeStored ==
    [][(RunExecuted /\ loc.action_success /\ loc.changed
            /\ ~Truthy(loc.step.actions[loc.act_i].expected_result))
        => hist'.transition_stored]_vars

\* C4: for every goal, the empty one included, and every behaviour of the
\* Planning Service, break_down_goal returns a plan, never None.
C4_NeverNull == BrokeDown => planner_call.ret # PyNone

\* C5: for a goal containing "paint" in any case and a Planning Service that
\* fails on every attempt, break_down_goal returns a plan whose first two
\* actions are PRESS win+r and TYPE mspaint with enter.
C5_PaintFallback ==
    (/\ BrokeDown
     /\ planner_call.goal.t = "str"
     /\ Contains(kw_paint, Lower(planner_call.goal.v))
     /\ \A i \in 1..max_retries : planner_call.svc[i] # "steps")
    => /\ planner_call.ret.t = "list"
       /\ Len(planner_call.ret.v) >= 2
       /\ planner_call.ret.v[1].action = [type |-> "PRESS", params |-> [keys |-> "win+r"]]
       /\ planner_call.ret.v[2].action =
            [type |-> "TYPE", params |-> [text |-> "mspaint", enter |-> TRUE]]

\* C6: every plan the planner produces, from the Planning Service or from the
\* fallback generator, has at least one step, and every step has a non-empty
\* name, description and actions.
C6_PlanWellFormed ==
    (planner_call.op # "none" /\ planner_call.ret.t = "list")
    => /\ Len(planner_call.ret.v) >= 1
       /\ \A i \in 1..Len(planner_call.ret.v) :
            LET step == planner_call.ret.v[i] IN
            /\ {"name", "description", "actions"} \subseteq DOMAIN step
            /\ step.name # "" /\ step.description # "" /\ step.actions # <<>>

\* C7: whatever the three checks find, on the first evaluation or on the
\* re-check, the confidence verify_goal_completion computes is in [0,1].
C7_ConfidenceInRange == Verified => v_call.confidence \in 0..10
C7_Witness == Verified /\ v_call.evals = 2 /\ v_call.confidence = 10

C9_ProgramOpenFalseSkipped ==
    (/\ Verified
     /\ Dict(v_expected)
     /\ "program_open" \in DOMAIN v_expected.v
     /\ v_expected.v.program_open = PyBool(FALSE))
    => v_call.results.state_check =
         verify_state_requirements(v_state, PyDict(Without(v_expected.v, "program_open")))
C9_Witness ==
    /\ Verified
    /\ v_expected = PyDict([program_open |-> PyBool(FALSE)])
    /\ v_call.results.state_check
    /\ Get(v_state, "paint_open") = PyBool(TRUE)
    /\ AnyMatch(program_info_cache.paint.window_patterns, ListOf(v_state, "window_titles"))

\* C10: two calls of verify_action_result with the same action and the same
\* pre_state and post_state return the same boolean, and a call leaves the
\* post_state it was given as it was.
C10_Idempotent ==
    /\ (/\ v_prev.op = "verify_action_result"
        /\ v_call.op = "verify_action_result"
        /\ v_prev.arg = v_call.arg)
       => v_call.passed = v_prev.passed
    /\ v_call.op = "verify_action_result" => v_state = v_call.arg
=============================================================================
